---- MODULE Spec2Model ----
(***************************************************************************)
(* GCP-Log-Transformer: the tailing workers (files.py tail_file), the      *)
(* shared occurrence cache CACHE_MAP with its lock (main.py), the eviction *)
(* sweep (prune.py CachePruner) and the supervising loop (main.py main).   *)
(*                                                                         *)
(* Python objects are modelled with their identity: a bucket (the dict of  *)
(* one file) and a record (the dict {"count", "first_seen"}) live in the   *)
(* heaps `buckets` and `recs`; CACHE_MAP, a bucket and a worker's local    *)
(* variables hold references (indices, 0 = None / absent).  A worker takes *)
(* one step per access to shared state, so that every interleaving the     *)
(* interpreter can produce between two such accesses is a behaviour.       *)
(***************************************************************************)
EXTENDS Integers, Sequences, FiniteSets, TLC

\* ------------------------------------------------------------------ bounds
NumFiles == 1        \* files matched by the configured patterns
NumMsgs == 1         \* distinct message texts
MaxThreads == 2      \* Tailer threads alive at the same time
MaxLines == 3        \* lines read by all Tailers together
MaxTime == 2         \* the wall clock stops advancing here
MaxToggles == 2      \* removals / re-creations of files
MaxLen == 3          \* characters of a raw line handed to parse_log_entry
Window == 1          \* opts.agg_interval, in clock ticks

Files == 1..NumFiles
Msgs == 1..NumMsgs
Tids == 1..MaxThreads
Objs == 1..MaxLines  \* a line creates at most one bucket and one record
None == 0

VARIABLES
    clock,       \* datetime.now()
    exists,      \* the file system: which source files glob() finds
    nlines,      \* lines read so far
    ntoggles,    \* file removals and creations so far
    CACHE_MAP,   \* main.py CACHE_MAP: file -> bucket reference (None: no key)
    buckets,     \* bucket heap: reference -> (message -> record reference)
    nbuckets,    \* buckets allocated
    recs,        \* record heap: reference -> [count, first_seen]
    nrecs,       \* records allocated
    lock,        \* CACHE_MAP_LOCK: "free" or its holder
    STOP_EVENT,  \* main.py STOP_EVENT
    threads,     \* main(): threads dict, file -> Tailer thread (None: no key)
    tl,          \* the Tailer threads' position and locals
    sup,         \* the Supervisor's position and locals
    pr,          \* the Pruner's position and locals
    sink,        \* per source file, the lines appended to its -agg.log
    writable,    \* the output directory accepts writes (files.py:36-41)
    entry,       \* parse_log_entry: the raw line handed to it
    parsed       \* parse_log_entry: what it returned for entry

vars == <<clock, exists, nlines, ntoggles, CACHE_MAP, buckets, nbuckets, recs,
          nrecs, lock, STOP_EVENT, threads, tl, sup, pr, sink, writable, entry, parsed>>

\* What no step of the Tailers, the Supervisor and the Pruner changes.
env == <<clock, exists, ntoggles, writable, entry, parsed>>
heap == <<buckets, nbuckets, recs, nrecs>>

\* ------------------------------------------------------------------ lines
\* A raw line: whether it starts with "[" and holds "]", whether the text
\* between them is a date dateutil parses, and the text after "]" (or the
\* whole line), stripped: a message, or 0 for the empty string.
Lines == [bracket : BOOLEAN, dateOk : BOOLEAN, text : 0..NumMsgs]

\* parser.py parse_log_entry: (timestamp, message).  timestamp is "None",
\* a "datetime" (parsed, or datetime.now()) or the raw "str"; message is
\* "None", or the text ("" is 0).
parse_log_entry(line) ==
    IF ~line.bracket /\ line.text = 0
    THEN [timestamp |-> "None", message |-> "None", text |-> 0]
    ELSE IF line.bracket
         THEN IF line.dateOk
              THEN [timestamp |-> "datetime", message |-> "str", text |-> line.text]
              ELSE [timestamp |-> "str", message |-> "str", text |-> line.text]
         ELSE [timestamp |-> "datetime", message |-> "str", text |-> line.text]

\* `if message is not None:` in place of files.py:73.
TruthyNotNone(p) == p.message = "str"

\* files.py:73 `if message:` - None and "" are both false.
Truthy(p) == p.message = "str" /\ p.text # 0

\* Raw lines, character by character: "d" stands for a character of a date
\* dateutil accepts, "x" for any other character of text.
Chars == {"[", "]", " ", "d", "x"}
Strings == UNION {[1..n -> Chars] : n \in 0..MaxLen}

\* str.strip()
strip(s) ==
    LET I == {i \in 1..Len(s) : s[i] # " "}
    IN IF I = {} THEN <<>>
       ELSE SubSeq(s, CHOOSE i \in I : \A j \in I : i <= j,
                      CHOOSE i \in I : \A j \in I : i >= j)

\* str.find(c), for a string that holds c
find(s, c) == CHOOSE i \in 1..Len(s) : s[i] = c /\ \A j \in 1..(i - 1) : s[j] # c

\* dateutil's parse returns a datetime (TRUE) or raises ValueError.
parse_datetime(timestamp_str) ==
    /\ \E i \in 1..Len(timestamp_str) : timestamp_str[i] = "d"
    /\ \A i \in 1..Len(timestamp_str) : timestamp_str[i] \in {"d", " "}

\* parser.py:21-28: what parse_log_entry makes of the characters of a raw
\* line, as a member of Lines; every non-empty message text is message 1.
LineOf(raw) ==
    LET e == strip(raw)
        bracket == e # <<>> /\ e[1] = "[" /\ \E i \in 1..Len(e) : e[i] = "]"
    IN IF bracket
       THEN LET end_bracket_index == find(e, "]")
                timestamp_str == SubSeq(e, 2, end_bracket_index - 1)
                message == strip(SubSeq(e, end_bracket_index + 1, Len(e)))
            IN [bracket |-> TRUE, dateOk |-> parse_datetime(timestamp_str),
                text |-> IF message = <<>> THEN 0 ELSE 1]
       ELSE [bracket |-> FALSE, dateOk |-> FALSE, text |-> IF e = <<>> THEN 0 ELSE 1]

\* parse_log_entry was not called yet.
NoResult == [timestamp |-> "unset", message |-> "unset", text |-> 0]

\* ------------------------------------------------------------------ sink
\* files.py dump_log_to_file: one line appended to the file's -agg.log.
\* fmt "plain": "[ts] msg"; "occurred": prune.py:72; "occured": parser.py:51.
\* by, rec and locked record who wrote the line, for which record, and whether
\* the cache lock was held by the writer.
Entry(fmt, msg, cnt, by, rec, locked) ==
    [fmt |-> fmt, msg |-> msg, cnt |-> cnt, by |-> by, rec |-> rec, locked |-> locked]

\* files.py:40-46: the line is appended; a failure of the open or the write
\* is logged and swallowed.
dump_log_to_file(f, e) ==
    sink' = IF writable THEN [sink EXCEPT ![f] = Append(@, e)] ELSE sink

\* ------------------------------------------------------------------ init
\* A record {"count", "first_seen"}.  hits is history, not program state: the
\* sighting that created the record and those process_log sent to its increment.
NoBucket == [m \in Msgs |-> None]
\* prune.py:56-59: data.get("first_seen") of a record without the key.
NoFirstSeen == 0 - 1

NoRec == [count |-> 0, first_seen |-> 0, hits |-> 0]
IdleTailer == [pc |-> "unborn", file_path |-> None, message |-> 0, timestamp |-> "None",
               cache |-> None, current_time |-> 0, log_data |-> None,
               item |-> None, val |-> 0]

Boot ==
    /\ clock = 0
    /\ exists = [f \in Files |-> TRUE]
    /\ CACHE_MAP = [f \in Files |-> None]
    /\ buckets = [b \in Objs |-> NoBucket]
    /\ nbuckets = 0
    /\ recs = [r \in Objs |-> NoRec]
    /\ nrecs = 0
    /\ lock = "free"
    /\ STOP_EVENT = FALSE
    /\ threads = [f \in Files |-> None]
    /\ tl = [t \in Tids |-> IdleTailer]
    /\ sup = [pc |-> "discover", discovered_files |-> {}, todo |-> {},
              stale_files |-> {}, file_path |-> None]
    /\ pr = [pc |-> "wait", now |-> 0, to_remove |-> {}, stop |-> FALSE]
    /\ sink = [f \in Files |-> <<>>]

Init ==
    /\ Boot
    /\ nlines = 0
    /\ ntoggles = 0
    /\ writable = TRUE
    /\ entry = <<>>
    /\ parsed = NoResult

\* files.py:71 on its own: parse_log_entry applied to a raw line drawn from
\* Strings, and the result the Tailer tests at files.py:73.
ParseInit ==
    /\ Boot
    /\ nlines = 0
    /\ ntoggles = 0
    /\ writable = TRUE
    /\ entry \in Strings
    /\ parsed = NoResult

Parse ==
    /\ parsed = NoResult
    /\ parsed' = parse_log_entry(LineOf(entry))
    /\ UNCHANGED <<clock, exists, nlines, ntoggles, CACHE_MAP, heap, lock, STOP_EVENT,
                   threads, tl, sup, pr, sink, writable, entry>>

SpecParse == ParseInit /\ [][Parse]_vars

\* The interpreter is gone once main() has returned: every thread is a daemon.
Running == sup.pc # "done"

\* ------------------------------------------------------------ environment
Tick ==
    /\ Running
    /\ clock < MaxTime
    /\ clock' = clock + 1
    /\ UNCHANGED <<exists, nlines, ntoggles, writable, entry, parsed, CACHE_MAP, heap, lock, STOP_EVENT,
                   threads, tl, sup, pr, sink>>

\* A source file is deleted or renamed away / created again.
FileToggle(f) ==
    /\ Running
    /\ ntoggles < MaxToggles
    /\ ntoggles' = ntoggles + 1
    /\ exists' = [exists EXCEPT ![f] = ~@]
    /\ UNCHANGED <<clock, nlines, writable, entry, parsed, CACHE_MAP, heap, lock, STOP_EVENT,
                   threads, tl, sup, pr, sink>>

\* ---------------------------------------------------------------- Tailer
\* files.py tail_file, one thread per call.  pc: "unborn" (no such thread),
\* "open", "loop" (line 69), "setdefault" (74-75), "check" (77), "novel"
\* (85-89), "insert" (90-93), then parser.py process_log: "process_log" (47),
\* "get" (48-49), "agg" (50-56), "del" (58), "incr" and "store" (60);
\* "stopped" once the function has returned.
AtLoop(t) ==
    [IdleTailer EXCEPT !.pc = "loop", !.file_path = tl[t].file_path]

Stopped(t) ==
    [IdleTailer EXCEPT !.pc = "stopped", !.file_path = tl[t].file_path]

is_alive(t) == tl[t].pc \notin {"unborn", "stopped"}

\* files.py:66-67: open() raises FileNotFoundError for a missing file.
TailOpen(t) ==
    /\ Running
    /\ tl[t].pc = "open"
    /\ tl' = [tl EXCEPT ![t] = IF exists[tl[t].file_path] THEN AtLoop(t) ELSE Stopped(t)]
    /\ UNCHANGED <<env, nlines, CACHE_MAP, heap, lock, STOP_EVENT, threads, sup, pr, sink>>

\* files.py:69: the stop signal ends the loop.
TailStop(t) ==
    /\ Running
    /\ tl[t].pc = "loop"
    /\ STOP_EVENT
    /\ tl' = [tl EXCEPT ![t] = Stopped(t)]
    /\ UNCHANGED <<env, nlines, CACHE_MAP, heap, lock, STOP_EVENT, threads, sup, pr, sink>>

\* The read, taken whether or not the stop event is set.
TailReadAfterStop(t) ==
    /\ Running
    /\ tl[t].pc = "loop"
    /\ nlines < MaxLines
    /\ nlines' = nlines + 1
    /\ \E line \in Lines :
         LET p == parse_log_entry(line) IN
         tl' = [tl EXCEPT ![t] =
                  IF Truthy(p)
                  THEN [@ EXCEPT !.pc = "setdefault", !.message = p.text,
                                 !.timestamp = p.timestamp]
                  ELSE @]
    /\ UNCHANGED <<env, CACHE_MAP, heap, lock, STOP_EVENT, threads, sup, pr, sink>>

\* files.py:70-73: a line is read and parsed; a line without a message is
\* skipped.  (readline() returning "" sleeps and comes back here.)  The open
\* handle keeps delivering what is appended, whatever happens to the path.
TailRead(t) ==
    /\ Running
    /\ tl[t].pc = "loop"
    /\ ~STOP_EVENT
    /\ nlines < MaxLines
    /\ nlines' = nlines + 1
    /\ \E line \in Lines :
         LET p == parse_log_entry(line) IN
         tl' = [tl EXCEPT ![t] =
                  IF Truthy(p)
                  THEN [@ EXCEPT !.pc = "setdefault", !.message = p.text,
                                 !.timestamp = p.timestamp]
                  ELSE @]
    /\ UNCHANGED <<env, CACHE_MAP, heap, lock, STOP_EVENT, threads, sup, pr, sink>>

\* files.py:74-75: with cache_map_lock: cache = cache_map.setdefault(file_path, {})
TailSetdefault(t) ==
    /\ Running
    /\ tl[t].pc = "setdefault"
    /\ lock = "free"
    /\ LET f == tl[t].file_path IN
       IF CACHE_MAP[f] # None
       THEN /\ tl' = [tl EXCEPT ![t].pc = "check", ![t].cache = CACHE_MAP[f]]
            /\ UNCHANGED <<CACHE_MAP, nbuckets>>
       ELSE /\ nbuckets' = nbuckets + 1
            /\ CACHE_MAP' = [CACHE_MAP EXCEPT ![f] = nbuckets + 1]
            /\ tl' = [tl EXCEPT ![t].pc = "check", ![t].cache = nbuckets + 1]
    /\ UNCHANGED <<env, nlines, buckets, recs, nrecs, lock, STOP_EVENT, threads, sup, pr, sink>>

\* files.py:77: if message in cache
TailCheck(t) ==
    /\ Running
    /\ tl[t].pc = "check"
    /\ tl' = [tl EXCEPT ![t].pc =
                IF buckets[tl[t].cache][tl[t].message] # None
                THEN "process_log" ELSE "novel"]
    /\ UNCHANGED <<env, nlines, CACHE_MAP, heap, lock, STOP_EVENT, threads, sup, pr, sink>>

\* files.py:85-89: timestamp.strftime(...) raises AttributeError on a str
\* (caught at line 100: the thread ends); otherwise the line is written.
TailNovel(t) ==
    /\ Running
    /\ tl[t].pc = "novel"
    /\ IF tl[t].timestamp = "str"
       THEN /\ tl' = [tl EXCEPT ![t] = Stopped(t)]
            /\ UNCHANGED sink
       ELSE /\ dump_log_to_file(tl[t].file_path,
                   Entry("plain", tl[t].message, 0, "tailer", None, FALSE))
            /\ tl' = [tl EXCEPT ![t].pc = "insert"]
    /\ UNCHANGED <<env, nlines, CACHE_MAP, heap, lock, STOP_EVENT, threads, sup, pr>>

\* files.py:90-93: cache[message] = {"count": 1, "first_seen": datetime.now()}
TailInsert(t) ==
    /\ Running
    /\ tl[t].pc = "insert"
    /\ nrecs' = nrecs + 1
    /\ recs' = [recs EXCEPT ![nrecs + 1] = [count |-> 1, first_seen |-> clock, hits |-> 1]]
    /\ buckets' = [buckets EXCEPT ![tl[t].cache][tl[t].message] = nrecs + 1]
    /\ tl' = [tl EXCEPT ![t] = AtLoop(t)]
    /\ UNCHANGED <<env, nlines, CACHE_MAP, nbuckets, lock, STOP_EVENT, threads, sup, pr, sink>>

\* parser.py:47: current_time = datetime.now()
ProcessLogNow(t) ==
    /\ Running
    /\ tl[t].pc = "process_log"
    /\ tl' = [tl EXCEPT ![t].pc = "get", ![t].current_time = clock]
    /\ UNCHANGED <<env, nlines, CACHE_MAP, heap, lock, STOP_EVENT, threads, sup, pr, sink>>

\* parser.py:49: the record's window has elapsed.
WindowElapsed(now, first_seen) == now - first_seen >= Window

\* parser.py:48-49: log_data = cache.get(message); the branch is taken.  A
\* sighting sent to the increment is a hit of the record.
ProcessLogGet(t) ==
    /\ Running
    /\ tl[t].pc = "get"
    /\ LET d == buckets[tl[t].cache][tl[t].message]
           elapsed == d # None /\ WindowElapsed(tl[t].current_time, recs[d].first_seen)
       IN /\ tl' = [tl EXCEPT ![t].log_data = d,
                              ![t].pc = IF elapsed THEN "agg" ELSE "incr"]
          /\ recs' = IF d # None /\ ~elapsed
                     THEN [recs EXCEPT ![d].hits = @ + 1] ELSE recs
    /\ UNCHANGED <<env, nlines, CACHE_MAP, buckets, nbuckets, nrecs, lock, STOP_EVENT,
                   threads, sup, pr, sink>>

\* parser.py:50: the counts process_log reports.
Reportable(count) == count >= 1

\* parser.py:50-57: "<message> (occured <count> times)" is written.
ProcessLogDump(t) ==
    /\ Running
    /\ tl[t].pc = "agg"
    /\ LET d == tl[t].log_data IN
       IF Reportable(recs[d].count)
       THEN dump_log_to_file(tl[t].file_path,
               Entry("occured", tl[t].message, recs[d].count, "tailer", d, FALSE))
       ELSE UNCHANGED sink
    /\ tl' = [tl EXCEPT ![t].pc = "del"]
    /\ UNCHANGED <<env, nlines, CACHE_MAP, heap, lock, STOP_EVENT, threads, sup, pr>>

\* parser.py:58: del cache[message]; KeyError (caught at files.py:100) when
\* the key is gone.
ProcessLogDel(t) ==
    /\ Running
    /\ tl[t].pc = "del"
    /\ IF buckets[tl[t].cache][tl[t].message] # None
       THEN /\ buckets' = [buckets EXCEPT ![tl[t].cache][tl[t].message] = None]
            /\ tl' = [tl EXCEPT ![t] = AtLoop(t)]
       ELSE /\ tl' = [tl EXCEPT ![t] = Stopped(t)]
            /\ UNCHANGED buckets
    /\ UNCHANGED <<env, nlines, CACHE_MAP, nbuckets, recs, nrecs, lock, STOP_EVENT,
                   threads, sup, pr, sink>>

\* parser.py:60, first half of `cache[message]["count"] += 1`: the record is
\* fetched (KeyError when the key is gone) and its count read.
ProcessLogLoad(t) ==
    /\ Running
    /\ tl[t].pc = "incr"
    /\ LET d == buckets[tl[t].cache][tl[t].message] IN
       tl' = [tl EXCEPT ![t] =
                IF d = None THEN Stopped(t)
                ELSE [@ EXCEPT !.pc = "store", !.log_data = None,
                               !.item = d, !.val = recs[d].count]]
    /\ UNCHANGED <<env, nlines, CACHE_MAP, heap, lock, STOP_EVENT, threads, sup, pr, sink>>

\* The store, with first_seen refreshed by the sighting.
ProcessLogStoreRefresh(t) ==
    /\ Running
    /\ tl[t].pc = "store"
    /\ recs' = [recs EXCEPT ![tl[t].item].count = tl[t].val + 1,
                            ![tl[t].item].first_seen = clock]
    /\ tl' = [tl EXCEPT ![t] = AtLoop(t)]
    /\ UNCHANGED <<env, nlines, CACHE_MAP, buckets, nbuckets, nrecs, lock, STOP_EVENT,
                   threads, sup, pr, sink>>

\* parser.py:60, second half: the sum is stored into the fetched record.
ProcessLogStore(t) ==
    /\ Running
    /\ tl[t].pc = "store"
    /\ recs' = [recs EXCEPT ![tl[t].item].count = tl[t].val + 1]
    /\ tl' = [tl EXCEPT ![t] = AtLoop(t)]
    /\ UNCHANGED <<env, nlines, CACHE_MAP, buckets, nbuckets, nrecs, lock, STOP_EVENT,
                   threads, sup, pr, sink>>

Tailer(t) ==
    \/ TailOpen(t)
    \/ TailStop(t)
    \/ TailRead(t)
    \/ TailSetdefault(t)
    \/ TailCheck(t)
    \/ TailNovel(t)
    \/ TailInsert(t)
    \/ ProcessLogNow(t)
    \/ ProcessLogGet(t)
    \/ ProcessLogDump(t)
    \/ ProcessLogDel(t)
    \/ ProcessLogLoad(t)
    \/ ProcessLogStore(t)

\* ------------------------------------------------------------ Supervisor
\* main.py main, lines 35-77.  pc: "discover" (36), "start" (38-48), "stale"
\* (50-51), "drop" (58-60), then the finally block: "join" (69-73),
\* "stop_pruner" (76), "join_pruner" (prune.py:39), "done" (main has returned).
InLoop == sup.pc \in {"discover", "start", "stale", "drop"}

\* files.py discover_files: what glob() matches now.
discover_files == {f \in Files : exists[f]}

\* main.py:36
SupDiscover ==
    /\ sup.pc = "discover"
    /\ sup' = [sup EXCEPT !.pc = "start", !.discovered_files = discover_files,
                          !.todo = discover_files]
    /\ UNCHANGED <<env, nlines, CACHE_MAP, heap, lock, STOP_EVENT, threads, tl, pr, sink>>

\* Only a file without an entry in threads needs a Tailer.
NeedsTailerUntracked(f) == threads[f] = None

\* main.py:39: the file needs a Tailer.
NeedsTailer(f) == threads[f] = None \/ ~is_alive(threads[f])

\* A thread slot no live Tailer occupies and no other file's entry names.
FreeSlots(f) ==
    {t \in Tids : ~is_alive(t) /\ \A g \in Files \ {f} : threads[g] # t}

\* main.py:38-48, one iteration of the for loop.
SupStart(f) ==
    /\ sup.pc = "start"
    /\ f \in sup.todo
    /\ IF NeedsTailer(f)
       THEN /\ FreeSlots(f) # {}
            /\ LET t == CHOOSE x \in FreeSlots(f) : \A y \in FreeSlots(f) : x <= y IN
               /\ threads' = [threads EXCEPT ![f] = t]
               /\ tl' = [tl EXCEPT ![t] = [IdleTailer EXCEPT !.pc = "open", !.file_path = f]]
       ELSE UNCHANGED <<threads, tl>>
    /\ sup' = [sup EXCEPT !.todo = @ \ {f}]
    /\ UNCHANGED <<env, nlines, CACHE_MAP, heap, lock, STOP_EVENT, pr, sink>>

\* main.py:50: stale_files = set(threads.keys()) - set(discovered_files)
SupStale ==
    /\ sup.pc = "start"
    /\ sup.todo = {}
    /\ sup' = [sup EXCEPT !.pc = "stale",
                 !.stale_files = {f \in Files : threads[f] # None} \ sup.discovered_files]
    /\ UNCHANGED <<env, nlines, CACHE_MAP, heap, lock, STOP_EVENT, threads, tl, pr, sink>>

\* main.py:51-57: del threads[file_path]
SupUntrack(f) ==
    /\ sup.pc = "stale"
    /\ f \in sup.stale_files
    /\ threads' = [threads EXCEPT ![f] = None]
    /\ sup' = [sup EXCEPT !.pc = "drop", !.file_path = f, !.stale_files = @ \ {f}]
    /\ UNCHANGED <<env, nlines, CACHE_MAP, heap, lock, STOP_EVENT, tl, pr, sink>>

\* main.py:58-60: with CACHE_MAP_LOCK: del CACHE_MAP[file_path]
SupDrop ==
    /\ sup.pc = "drop"
    /\ lock = "free"
    /\ CACHE_MAP' = [CACHE_MAP EXCEPT ![sup.file_path] = None]
    /\ sup' = [sup EXCEPT !.pc = "stale", !.file_path = None]
    /\ UNCHANGED <<env, nlines, heap, lock, STOP_EVENT, threads, tl, pr, sink>>

\* main.py:62: the pass is over; after the sleep the next one starts.
SupSleep ==
    /\ sup.pc = "stale"
    /\ sup.stale_files = {}
    /\ sup' = [sup EXCEPT !.pc = "discover", !.discovered_files = {}]
    /\ UNCHANGED <<env, nlines, CACHE_MAP, heap, lock, STOP_EVENT, threads, tl, pr, sink>>

\* main.py:64-67: KeyboardInterrupt anywhere in the loop; STOP_EVENT.set()
SupInterrupt ==
    /\ InLoop
    /\ STOP_EVENT' = TRUE
    /\ sup' = [sup EXCEPT !.pc = "join", !.discovered_files = {}, !.todo = {},
                          !.stale_files = {}, !.file_path = None]
    /\ UNCHANGED <<env, nlines, CACHE_MAP, heap, lock, threads, tl, pr, sink>>

\* main.py:69-73: every tracked thread is joined, each for at most 5 s.
SupJoin ==
    /\ sup.pc = "join"
    /\ sup' = [sup EXCEPT !.pc = "stop_pruner"]
    /\ UNCHANGED <<env, nlines, CACHE_MAP, heap, lock, STOP_EVENT, threads, tl, pr, sink>>

\* main.py:76, prune.py:38: pruner.stop() sets the Pruner's stop event.
SupStopPruner ==
    /\ sup.pc = "stop_pruner"
    /\ pr' = [pr EXCEPT !.stop = TRUE]
    /\ sup' = [sup EXCEPT !.pc = "join_pruner"]
    /\ UNCHANGED <<env, nlines, CACHE_MAP, heap, lock, STOP_EVENT, threads, tl, sink>>

\* prune.py:39, main.py:77: the Pruner thread is joined for at most 1 s and
\* main returns.
SupReturn ==
    /\ sup.pc = "join_pruner"
    /\ sup' = [sup EXCEPT !.pc = "done"]
    /\ UNCHANGED <<env, nlines, CACHE_MAP, heap, lock, STOP_EVENT, threads, tl, pr, sink>>

Supervisor ==
    \/ SupDiscover
    \/ \E f \in Files : SupStart(f)
    \/ SupStale
    \/ \E f \in Files : SupUntrack(f)
    \/ SupDrop
    \/ SupSleep
    \/ SupInterrupt
    \/ SupJoin
    \/ SupStopPruner
    \/ SupReturn

\* ---------------------------------------------------------------- Pruner
\* prune.py CachePruner._worker and prune_once.  pc: "wait" (42), "acquire"
\* (53), "pop" (64-74, holding the lock), "exited".

\* The comparison with the boundary included.
ExpiredAtWindow(now, first_seen) == now - first_seen >= Window

\* prune.py:62: the record is older than the window.
Expired(now, first_seen) == now - first_seen > Window

\* prune.py:54-63: the (path, msg, data) whose record has expired.
ToRemove(now) ==
    {e \in Files \X Msgs \X Objs :
        /\ CACHE_MAP[e[1]] # None
        /\ buckets[CACHE_MAP[e[1]]][e[2]] = e[3]
        /\ IF recs[e[3]].first_seen = NoFirstSeen THEN TRUE
           ELSE Expired(now, recs[e[3]].first_seen)}

\* prune.py:42, 51: the wait times out and a sweep starts: now = datetime.now()
\* The wake-up, taken whether or not stop() was called.
PruneWakeAfterStop ==
    /\ Running
    /\ pr.pc = "wait"
    /\ pr' = [pr EXCEPT !.pc = "acquire", !.now = clock]
    /\ UNCHANGED <<env, nlines, CACHE_MAP, heap, lock, STOP_EVENT, threads, tl, sup, sink>>

\* The wake-up of a worker whose loop test is inverted: the first tick ends
\* the thread.
PruneWakeExits ==
    /\ Running
    /\ pr.pc = "wait"
    /\ ~pr.stop
    /\ pr' = [pr EXCEPT !.pc = "exited"]
    /\ UNCHANGED <<env, nlines, CACHE_MAP, heap, lock, STOP_EVENT, threads, tl, sup, sink>>

PruneWake ==
    /\ Running
    /\ pr.pc = "wait"
    /\ ~pr.stop
    /\ pr' = [pr EXCEPT !.pc = "acquire", !.now = clock]
    /\ UNCHANGED <<env, nlines, CACHE_MAP, heap, lock, STOP_EVENT, threads, tl, sup, sink>>

\* prune.py:53-63: the lock is taken and the cache scanned.
PruneScan ==
    /\ Running
    /\ pr.pc = "acquire"
    /\ lock = "free"
    /\ lock' = "pruner"
    /\ pr' = [pr EXCEPT !.pc = "pop", !.to_remove = ToRemove(pr.now)]
    /\ UNCHANGED <<env, nlines, CACHE_MAP, heap, STOP_EVENT, threads, tl, sup, sink>>

\* prune.py:68: the counts the sweep reports.
Aggregated(cnt) == cnt > 1

\* prune.py:64-74, one iteration: removed = self.cache[path].pop(msg, None),
\* and the aggregated line for a count above one.
PrunePop ==
    /\ Running
    /\ pr.pc = "pop"
    /\ pr.to_remove # {}
    /\ LET e == CHOOSE x \in pr.to_remove :
                  \A y \in pr.to_remove :
                      x[1] < y[1] \/ (x[1] = y[1] /\ x[2] <= y[2])
           b == CACHE_MAP[e[1]]
           removed == buckets[b][e[2]]
       IN /\ buckets' = [buckets EXCEPT ![b][e[2]] = None]
          /\ IF removed # None /\ Aggregated(recs[removed].count)
             THEN dump_log_to_file(e[1],
                     Entry("occurred", e[2], recs[removed].count, "pruner", removed,
                           lock = "pruner"))
             ELSE UNCHANGED sink
          /\ pr' = [pr EXCEPT !.to_remove = @ \ {e}]
    /\ UNCHANGED <<env, nlines, CACHE_MAP, nbuckets, recs, nrecs, lock, STOP_EVENT,
                   threads, tl, sup>>

\* The end of a sweep in a worker that sweeps once (`if` for the `while` of
\* prune.py:42).
PruneReleaseOnce ==
    /\ Running
    /\ pr.pc = "pop"
    /\ pr.to_remove = {}
    /\ lock' = "free"
    /\ pr' = [pr EXCEPT !.pc = "exited", !.now = 0]
    /\ UNCHANGED <<env, nlines, CACHE_MAP, heap, STOP_EVENT, threads, tl, sup, sink>>

\* prune.py:53: the with block ends and the lock is released.
PruneRelease ==
    /\ Running
    /\ pr.pc = "pop"
    /\ pr.to_remove = {}
    /\ lock' = "free"
    /\ pr' = [pr EXCEPT !.pc = "wait", !.now = 0]
    /\ UNCHANGED <<env, nlines, CACHE_MAP, heap, STOP_EVENT, threads, tl, sup, sink>>

\* prune.py:42: the stop event ends the worker.
PruneExit ==
    /\ Running
    /\ pr.pc = "wait"
    /\ pr.stop
    /\ pr' = [pr EXCEPT !.pc = "exited"]
    /\ UNCHANGED <<env, nlines, CACHE_MAP, heap, lock, STOP_EVENT, threads, tl, sup, sink>>

Pruner ==
    \/ PruneWake
    \/ PruneScan
    \/ PrunePop
    \/ PruneRelease
    \/ PruneExit

\* prune_once applied to a cache it is handed (CachePruner takes the cache as
\* a constructor argument, prune.py:16-20): one bucket whose records are
\* drawn from every count and every first_seen, the missing one included.
\* No Tailer and no Supervisor act.
RecordInputs ==
    [count : 1..MaxLines, first_seen : {NoFirstSeen} \cup (0..MaxTime), hits : {0}]

PruneInit ==
    /\ clock \in 0..MaxTime
    /\ exists = [f \in Files |-> TRUE]
    /\ nlines = 0
    /\ ntoggles = 0
    /\ CACHE_MAP = [f \in Files |-> IF f = 1 THEN 1 ELSE None]
    /\ \E present \in SUBSET Msgs :
         buckets = [b \in Objs |-> IF b = 1
                                   THEN [m \in Msgs |-> IF m \in present THEN m ELSE None]
                                   ELSE NoBucket]
    /\ nbuckets = 1
    /\ recs \in [Objs -> RecordInputs \cup {NoRec}]
    /\ \A r \in Objs : (recs[r] # NoRec) <=> (r \in Msgs /\ buckets[1][r] = r)
    /\ \A r \in Objs : recs[r] # NoRec =>
          (recs[r].first_seen = NoFirstSeen \/ recs[r].first_seen <= clock)
    /\ nrecs = NumMsgs
    /\ lock = "free"
    /\ STOP_EVENT = FALSE
    /\ threads = [f \in Files |-> None]
    /\ tl = [t \in Tids |-> IdleTailer]
    /\ sup = [pc |-> "discover", discovered_files |-> {}, todo |-> {},
              stale_files |-> {}, file_path |-> None]
    /\ pr = [pc |-> "wait", now |-> 0, to_remove |-> {}, stop |-> FALSE]
    /\ sink = [f \in Files |-> <<>>]
    /\ writable = TRUE
    /\ entry = <<>>
    /\ parsed = NoResult

\* prune.py:41-43 without stop(): the worker sweeps at every tick.
PruneNext == Tick \/ PruneWake \/ PruneScan \/ PrunePop \/ PruneRelease

SpecPrune == PruneInit /\ [][PruneNext]_vars

\* ------------------------------------------------------------------ spec
Next ==
    \/ Tick
    \/ \E f \in Files : FileToggle(f)
    \/ \E t \in Tids : Tailer(t)
    \/ Supervisor
    \/ Pruner

Spec == Init /\ [][Next]_vars

\* The same program on a disk that may refuse every write, with the
\* scheduling the threads get: a thread that can take a step of its code
\* eventually takes it, and a thread that waits for the lock gets it if the
\* lock is free again and again.  Not assumed: that lines arrive (TailRead), that files
\* come and go, that the clock is read again, that Ctrl+C is pressed.
\* The program starts as in Init; the environment has one line and one file
\* event less to give, which keeps the graph small enough for the search
\* for cycles.
LiveInit ==
    /\ Boot
    /\ nlines = 1
    /\ ntoggles = 1
    /\ writable \in BOOLEAN
    /\ entry = <<>>
    /\ parsed = NoResult

TailerStep(t) ==
    \/ TailOpen(t)
    \/ TailStop(t)
    \/ TailSetdefault(t)
    \/ TailCheck(t)
    \/ TailNovel(t)
    \/ TailInsert(t)
    \/ ProcessLogNow(t)
    \/ ProcessLogGet(t)
    \/ ProcessLogDump(t)
    \/ ProcessLogDel(t)
    \/ ProcessLogLoad(t)
    \/ ProcessLogStore(t)

SupervisorStep ==
    \/ SupDiscover
    \/ \E f \in Files : SupStart(f)
    \/ SupStale
    \/ \E f \in Files : SupUntrack(f)
    \/ SupDrop
    \/ SupSleep
    \/ SupJoin
    \/ SupStopPruner
    \/ SupReturn

Fairness ==
    /\ \A t \in Tids : WF_vars(TailerStep(t)) /\ SF_vars(TailSetdefault(t))
    /\ WF_vars(SupervisorStep) /\ SF_vars(SupDrop)
    /\ WF_vars(Pruner)

SpecLive == LiveInit /\ [][Next]_vars /\ Fairness

\* ================================================================ claims
NovelPcs == {"novel", "insert"}
ProcessLogPcs == {"process_log", "get", "agg", "del", "incr", "store"}
ObservePcs == {"check"} \cup NovelPcs \cup ProcessLogPcs

\* Tailer t ends the processing of a sighting in this step.
Finishes(t) == tl[t].pc \in ObservePcs /\ tl'[t].pc \in {"loop", "stopped"}

\* A line is appended to f's sink in this step, and the line.
Written(f) == Len(sink'[f]) = Len(sink[f]) + 1
NewLine(f) == sink'[f][Len(sink'[f])]

\* The aggregated lines of f's sink that report record r.
AggLines(f, r) ==
    {i \in 1..Len(sink[f]) : sink[f][i].fmt # "plain" /\ sink[f][i].rec = r}

\* C1: a sighting that finds no record for (file, message) is Novel - its
\* line is in the Sink and a record with count 1 exists when the Tailer is
\* done with it - and a sighting that finds a record is Duplicate: the Tailer
\* is done with it by raising that record's count by exactly one.  (Lines
\* whose timestamp parsed; the others are C8's.)
C1_FirstNovelLaterDuplicate ==
    [][\A t \in Tids :
         (Finishes(t) /\ tl[t].timestamp = "datetime") =>
           LET b == tl[t].cache
               m == tl[t].message
               f == tl[t].file_path
           IN IF tl[t].pc \in NovelPcs
              THEN /\ tl'[t].pc = "loop"
                   /\ buckets'[b][m] # None
                   /\ recs'[buckets'[b][m]].count = 1
                   /\ \E i \in 1..Len(sink'[f]) :
                        sink'[f][i].fmt = "plain" /\ sink'[f][i].msg = m
              ELSE /\ tl'[t].pc = "loop"
                   /\ buckets[b][m] # None
                   /\ buckets'[b][m] = buckets[b][m]
                   /\ recs'[buckets[b][m]].count = recs[buckets[b][m]].count + 1
      ]_vars

\* C2: the aggregated line written for a record that had k > 1 sightings in
\* its window states k, is the only aggregated line for that record, and
\* comes after the immediate line of the message.
C2_OneAggregatedLineStatingK ==
    [][\A f \in Files :
         (Written(f) /\ NewLine(f).fmt # "plain" /\ recs[NewLine(f).rec].hits > 1) =>
           /\ NewLine(f).cnt = recs[NewLine(f).rec].hits
           /\ AggLines(f, NewLine(f).rec) = {}
           /\ \E i \in 1..Len(sink[f]) :
                sink[f][i].fmt = "plain" /\ sink[f][i].msg = NewLine(f).msg
      ]_vars

\* C3: no aggregated line is ever written for a record whose count is 1.
C3_NoAggregatedLineForCountOne ==
    \A f \in Files : \A i \in 1..Len(sink[f]) :
        sink[f][i].fmt # "plain" => sink[f][i].cnt > 1

\* C4: whatever the interleaving of a Tailer's sighting with a sweep, a record
\* is reported at most once, and the sighting lands in the record while it is
\* still cached: a Tailer about to increment finds the record, and the record
\* it stores into is the one in the bucket.
C4_NoLostOrDoubleReport ==
    /\ \A f \in Files : \A i, j \in 1..Len(sink[f]) :
         (i < j /\ sink[f][i].fmt # "plain" /\ sink[f][j].fmt # "plain")
            => sink[f][i].rec # sink[f][j].rec
    /\ \A t \in Tids :
         /\ tl[t].pc = "incr" => buckets[tl[t].cache][tl[t].message] # None
         /\ tl[t].pc = "store" => buckets[tl[t].cache][tl[t].message] = tl[t].item

\* C5: of the concurrent observations of one key exactly one is Novel, and no
\* increment is lost: never are two Tailers both creating the record of the
\* same key, nor both storing a count into the same record.
C5_ConcurrentObservationsCount ==
    \A t1, t2 \in Tids :
        t1 # t2 =>
          /\ ~(/\ tl[t1].pc \in NovelPcs /\ tl[t2].pc \in NovelPcs
               /\ tl[t1].cache = tl[t2].cache /\ tl[t1].message = tl[t2].message)
          /\ ~(/\ tl[t1].pc = "store" /\ tl[t2].pc = "store"
               /\ tl[t1].item = tl[t2].item)

\* C6: cache operations are critical sections of the one lock: at most one
\* worker is inside a cache operation (a Tailer between its lookup and its
\* insert / increment, the Pruner between its scan and its last removal).
C6_CacheOperationsSerialized ==
    Cardinality({t \in Tids : tl[t].pc \in NovelPcs \cup ProcessLogPcs})
        + (IF lock = "pruner" THEN 1 ELSE 0) <= 1

C8_UnparsedTimestampIsWritten ==
    [][\A t \in Tids :
         (tl[t].pc = "novel" /\ tl[t].timestamp = "str" /\ tl'[t] # tl[t]) =>
           /\ tl'[t].pc = "insert"
           /\ Written(tl[t].file_path)
           /\ NewLine(tl[t].file_path).msg = tl[t].message
      ]_vars

\* C9: only the Pruner's sweep removes a single record, and only the Pruner
\* writes aggregated lines.
C9_OnlyPrunerEvictsAndReports ==
    [][/\ \A b \in Objs, m \in Msgs :
            (buckets[b][m] # None /\ buckets'[b][m] = None)
               => (pr.pc = "pop" /\ pr'.to_remove # pr.to_remove)
       /\ \A f \in Files :
            (Written(f) /\ NewLine(f).fmt # "plain") => NewLine(f).by = "pruner"
      ]_vars

\* C10: while the process runs, a file the Supervisor does not track (it left
\* the discovered set and its bucket was dropped) has no bucket.
C10_NoBucketUntilRediscovered ==
    \A f \in Files :
        (/\ ~STOP_EVENT
         /\ threads[f] = None
         /\ ~(sup.pc = "drop" /\ sup.file_path = f))
           => CACHE_MAP[f] = None

\* C11: no line is appended to a sink by a writer that holds the cache lock.
C11_NoSinkWriteUnderLock ==
    \A f \in Files : \A i \in 1..Len(sink[f]) : ~sink[f][i].locked

\* C13: at most one Tailer is in Opening or Following for a file; stated for
\* the Tailers that are past their open, which hold the file open.
C13_OneLiveTailerPerFile ==
    \A t1, t2 \in Tids :
        (/\ t1 # t2
         /\ is_alive(t1) /\ tl[t1].pc # "open"
         /\ is_alive(t2) /\ tl[t2].pc # "open")
           => tl[t1].file_path # tl[t2].file_path

\* C14: the iteration of a discovery tick for a file leaves the file with a
\* live Tailer of its own in threads - the one it had, or a new one when it
\* had none alive; a thread that is not running starts only there; and a
\* tracked Tailer that has exited while its file exists is replaced by a
\* live one, unless the file goes away or the shutdown starts first.
C14_DiscoveredFilesGetTailer ==
    /\ [][/\ \A f \in Files :
               (/\ sup.pc = "start" /\ sup'.pc = "start"
                /\ f \in sup.todo /\ f \notin sup'.todo)
                  => /\ threads'[f] # None
                     /\ tl'[threads'[f]].pc \notin {"unborn", "stopped"}
                     /\ tl'[threads'[f]].file_path = f
          /\ \A t \in Tids :
               (tl[t].pc \in {"unborn", "stopped"} /\ tl'[t].pc \notin {"unborn", "stopped"})
                  => /\ sup.pc = "start" /\ sup'.todo # sup.todo
                     /\ tl'[t].pc = "open"
                     /\ threads'[tl'[t].file_path] = t
         ]_vars
    /\ \A f \in Files :
         (threads[f] # None /\ ~is_alive(threads[f]) /\ exists[f])
            ~> \/ threads[f] # None /\ is_alive(threads[f])
               \/ ~exists[f]
               \/ STOP_EVENT

\* C14 witness: the file was never away, a Tailer of it has exited, and the
\* file's Tailer in threads is a new one at its open.
C14_Witness ==
    \E f \in Files :
        /\ exists[f]
        /\ ntoggles = 1
        /\ threads[f] # None
        /\ tl[threads[f]].pc = "open"
        /\ nlines > 1
        /\ \A t \in Tids \ {threads[f]} : ~is_alive(t)

\* C18: a cached record has count >= 1; the first_seen of a record never
\* changes and its count never falls; a change of count changes nothing else
\* of the cache.
C18_CountAndFirstSeen ==
    /\ [](\A b \in Objs, m \in Msgs :
            buckets[b][m] # None => recs[buckets[b][m]].count >= 1)
    /\ [][\A r \in Objs :
            r <= nrecs =>
              /\ recs'[r].first_seen = recs[r].first_seen
              /\ recs'[r].count >= recs[r].count
              /\ recs'[r].count # recs[r].count
                   => (buckets' = buckets /\ CACHE_MAP' = CACHE_MAP)
         ]_vars

\* C18 witness: a cached record counted a Duplicate and the clock has moved
\* on since its creation.
C18_Witness ==
    \E f \in Files, m \in Msgs :
        /\ CACHE_MAP[f] # None
        /\ buckets[CACHE_MAP[f]][m] # None
        /\ recs[buckets[CACHE_MAP[f]][m]].count >= 2
        /\ clock > recs[buckets[CACHE_MAP[f]][m]].first_seen

Pending(f) ==
    IF CACHE_MAP[f] = None THEN {}
    ELSE {r \in Objs : /\ \E m \in Msgs : buckets[CACHE_MAP[f]][m] = r
                       /\ recs[r].count > 1
                       /\ clock - recs[r].first_seen < Window}

Removed(f) ==
    IF CACHE_MAP[f] = None THEN {}
    ELSE {r \in Objs : \E m \in Msgs :
              buckets[CACHE_MAP[f]][m] = r /\ buckets'[CACHE_MAP[f]][m] = None}

Blank(s) == \A i \in 1..Len(s) : s[i] = " "

\* A raw line that holds a bracketed timestamp and nothing else.
TimestampOnly(s) ==
    /\ \E i \in 1..Len(s) : s[i] = "[" /\ \A j \in 1..(i - 1) : s[j] = " "
    /\ \E k \in 1..Len(s) :
         /\ s[k] = "]"
         /\ \A j \in (k + 1)..Len(s) : s[j] = " "
         /\ \A j \in 1..(k - 1) : s[j] # "]"

\* C19, as claimed: the Tailer observes the message of every line that is not
\* empty or whitespace only.
C19_OnlyBlankLinesSkipped ==
    parsed # NoResult => (Truthy(parsed) <=> ~Blank(entry))

\* C19: parsing yields no message exactly for an empty or whitespace-only
\* line, and the Tailer observes the message of every line except those and
\* the lines that hold nothing but a bracketed timestamp.
C19_BlankAndTimestampOnlySkipped ==
    parsed # NoResult =>
        /\ parsed.message = "None" <=> Blank(entry)
        /\ Truthy(parsed) <=> (~Blank(entry) /\ ~TimestampOnly(entry))

\* C19 witness: a line "[date]" alone was parsed, the date was understood,
\* and its message is not one the Tailer observes.
C19_Witness ==
    /\ parsed # NoResult
    /\ TimestampOnly(entry)
    /\ parsed.timestamp = "datetime"
    /\ ~Truthy(parsed)

\* Record r is in the bucket of a file.
InCache(r) ==
    \E f \in Files, m \in Msgs : CACHE_MAP[f] # None /\ buckets[CACHE_MAP[f]][m] = r

\* C20: until the Pruner is told to stop, a record of the cache whose age
\* exceeds the window is eventually removed from it, whether or not lines
\* arrive and whether or not the sink accepts the aggregated line.
C20_ExpiredRecordsEventuallyRemoved ==
    \A r \in Objs :
        (InCache(r) /\ clock - recs[r].first_seen > Window) ~> (~InCache(r) \/ pr.stop)

\* C20 witness: the sink refuses writes, no line is left to arrive, and a
\* record with count > 1 whose age exceeds the window is in the cache when
\* the sweep that takes it has it selected.
C20_Witness ==
    /\ ~writable
    /\ nlines = MaxLines
    /\ pr.pc = "pop"
    /\ \E e \in pr.to_remove :
         /\ InCache(e[3])
         /\ recs[e[3]].count > 1
         /\ clock - recs[e[3]].first_seen > Window

\* C12: a Tailer past its open whose file is gone and which the Supervisor no
\* longer tracks reaches Stopped, if the shutdown signal is never set.
C12_UntrackedTailerStops ==
    \A t \in Tids :
        (/\ is_alive(t) /\ tl[t].pc # "open"
         /\ ~exists[tl[t].file_path]
         /\ threads[tl[t].file_path] # t)
           ~> (tl[t].pc = "stopped" \/ STOP_EVENT)

====
